---- MODULE Spec2Model ----
(***************************************************************************)
(* A model of the link shortener of src/index.ts: the links table, the     *)
(* in-memory token set, the router and the request handlers.               *)
(*                                                                         *)
(* Strings are sequences of one-character strings, so that the code's      *)
(* string operations (regular expression test, startsWith, substring,      *)
(* parseInt, SQL LIKE, URL parsing) are computed and not assumed.          *)
(*                                                                         *)
(* JavaScript runs a handler without interruption from one await to the    *)
(* next.  The only await of the POST handlers is `await c.req.json()`, so  *)
(* such a handler is two steps: the part before the await (Arrive) and the *)
(* part after it (Handle), which receives the body.  GET handlers have no  *)
(* await and are one step.                                                 *)
(***************************************************************************)
EXTENDS Integers, Sequences, FiniteSets, Bags, TLC

\* ------------------------------------------------------------------ bounds
\* rows the table may hold
MaxLinks == 2
\* largest clicks value a row may reach
MaxClicks == 2
\* CURRENT_TIMESTAMP takes the values 0..MaxTime (whole seconds)
MaxTime == 0
\* POST requests suspended at their await at the same time
MaxPending == 2

\* --------------------------------------------------------- program constants
maxAttempts == 10
ShortCodeLength == 6
MaxSlugLength == 50
BearerPrefixLength == 7
RADIX == 10

\* ------------------------------------------------------------------ strings
LowerCase ==
  {"a","b","c","d","e","f","g","h","i","j","k","l","m",
   "n","o","p","q","r","s","t","u","v","w","x","y","z"}

UpperCase ==
  {"A","B","C","D","E","F","G","H","I","J","K","L","M",
   "N","O","P","Q","R","S","T","U","V","W","X","Y","Z"}

Digits == {"0","1","2","3","4","5","6","7","8","9"}

\* the alphabet of generateShortCode and generateToken
chars == LowerCase \cup UpperCase \cup Digits

\* ASCII case folding, as SQLite's LIKE and the URL parser's scheme do it
ToLower(ch) ==
  CASE ch = "A" -> "a" [] ch = "B" -> "b" [] ch = "C" -> "c" [] ch = "D" -> "d"
    [] ch = "E" -> "e" [] ch = "F" -> "f" [] ch = "G" -> "g" [] ch = "H" -> "h"
    [] ch = "I" -> "i" [] ch = "J" -> "j" [] ch = "K" -> "k" [] ch = "L" -> "l"
    [] ch = "M" -> "m" [] ch = "N" -> "n" [] ch = "O" -> "o" [] ch = "P" -> "p"
    [] ch = "Q" -> "q" [] ch = "R" -> "r" [] ch = "S" -> "s" [] ch = "T" -> "t"
    [] ch = "U" -> "u" [] ch = "V" -> "v" [] ch = "W" -> "w" [] ch = "X" -> "x"
    [] ch = "Y" -> "y" [] ch = "Z" -> "z" [] OTHER -> ch

LowerStr(s) == [i \in 1..Len(s) |-> ToLower(s[i])]

DigitValue(ch) ==
  CASE ch = "0" -> 0 [] ch = "1" -> 1 [] ch = "2" -> 2 [] ch = "3" -> 3
    [] ch = "4" -> 4 [] ch = "5" -> 5 [] ch = "6" -> 6 [] ch = "7" -> 7
    [] ch = "8" -> 8 [] ch = "9" -> 9 [] OTHER -> 0

\* a JSON field or query parameter that is absent (undefined in JavaScript)
Undefined == <<"undefined-value">>

\* !x for a string or undefined
Falsy(s) == s = Undefined \/ s = <<>>

\* x || d
OrDefault(s, d) == IF Falsy(s) THEN d ELSE s

StartsWith(s, p) == Len(s) >= Len(p) /\ SubSeq(s, 1, Len(p)) = p

\* ------------------------------------------------------------ input values
\* the codes tried as results of generateShortCode
G1 == <<"a","B","c","1","2","3">>
G2 == <<"x","Y","z","7","8","9">>
GenCodes == {G1, G2}

\* generateShortCode(): any string of 6 characters of chars (those of GenCodes)
generateShortCode ==
  {c \in GenCodes :
     Len(c) = ShortCodeLength /\ \A i \in 1..Len(c) : c[i] \in chars}

S_admin == <<"a","d","m","i","n">>
S_badslug == <<"a","/","b">>
S_longslug == [i \in 1..(MaxSlugLength + 1) |-> "a"]

U1 == <<"h","t","t","p",":","/","/","a">>
U2 == <<"x",":","b","_">>
U_noscheme == <<"a",".","b">>
U_nohost == <<"h","t","t","p",":","/","/">>

\* T1: the token generateToken returns; T2: a token it never returned
T1 == <<"t","o","k","1">>
T2 == <<"t","o","k","2">>
TokenPool == {T1}

\* generateToken(): any string of characters of chars (those of TokenPool,
\* shorter than the 32 characters of the code)
generateToken == {t \in TokenPool : \A i \in 1..Len(t) : t[i] \in chars}

Bearer == <<"B","e","a","r","e","r"," ">>
H_lower == <<"b","e","a","r","e","r"," ">> \o T1
H_raw == T1

ADMIN_PASSWORD == <<"d","o","p","p","y">>
P_wrong == <<"d","o","p","p","Y">>

\* ----------------------------------------------------------- pure functions
\* new URL(string) succeeds.  The URL parser, run without a base URL, fails
\* unless the string starts with a scheme ([A-Za-z][A-Za-z0-9+.-]*:), and for
\* a special scheme (other than file) fails when the host is empty.
SchemeChars == chars \cup {"+", "-", "."}
SpecialSchemes ==
  { <<"h","t","t","p">>, <<"h","t","t","p","s">>, <<"f","t","p">>,
    <<"w","s">>, <<"w","s","s">> }

\* the string after its leading slashes and backslashes
RECURSIVE SkipSlashes(_)
SkipSlashes(s) ==
  IF s # <<>> /\ Head(s) \in {"/", "\\"} THEN SkipSlashes(Tail(s)) ELSE s

HostIsEmpty(rest) ==
  LET r == SkipSlashes(rest) IN r = <<>> \/ Head(r) \in {"?", "#", ":"}

isValidUrl(string) ==
  /\ string # Undefined
  /\ \E i \in 2..Len(string) :
       /\ string[i] = ":"
       /\ string[1] \in LowerCase \cup UpperCase
       /\ \A j \in 2..(i - 1) : string[j] \in SchemeChars
       /\ LowerStr(SubSeq(string, 1, i - 1)) \in SpecialSchemes
            => ~HostIsEmpty(SubSeq(string, i + 1, Len(string)))

\* /^[a-zA-Z0-9_-]+$/.test(slug) && slug.length >= 1 && slug.length <= 50
SlugChars == chars \cup {"_", "-"}

isValidSlug(slug) ==
  /\ Len(slug) >= 1
  /\ \A i \in 1..Len(slug) : slug[i] \in SlugChars
  /\ Len(slug) >= 1
  /\ Len(slug) <= MaxSlugLength

\* validateToken without the startsWith('Bearer ') test: a header without the
\* prefix is taken as the token itself
validateTokenNoPrefix(tokens, authHeader) ==
  IF Falsy(authHeader)
  THEN FALSE
  ELSE (IF StartsWith(authHeader, Bearer)
        THEN SubSeq(authHeader, BearerPrefixLength + 1, Len(authHeader))
        ELSE authHeader) \in tokens

\* validateToken(authHeader) against the token set
validateToken(tokens, authHeader) ==
  IF Falsy(authHeader) \/ ~StartsWith(authHeader, Bearer)
  THEN FALSE
  ELSE SubSeq(authHeader, BearerPrefixLength + 1, Len(authHeader)) \in tokens

\* parseInt(s, 10): an optional sign, then the longest run of digits; NaN when
\* there is no digit.  What follows the digits is ignored.
NaN == [nan |-> TRUE, val |-> 0]
Num(n) == [nan |-> FALSE, val |-> n]

RECURSIVE DigitRun(_, _, _)
\* <<value, count>> of the digits at the head of s, after `count` digits of
\* value `acc`
DigitRun(s, acc, count) ==
  IF s # <<>> /\ Head(s) \in Digits
  THEN DigitRun(Tail(s), acc * RADIX + DigitValue(Head(s)), count + 1)
  ELSE <<acc, count>>

RECURSIVE SkipSpaces(_)
SkipSpaces(s) ==
  IF s # <<>> /\ Head(s) = " " THEN SkipSpaces(Tail(s)) ELSE s

parseInt(str) ==
  LET s == SkipSpaces(str)
      neg == s # <<>> /\ Head(s) = "-"
      body == IF s # <<>> /\ Head(s) \in {"-", "+"} THEN Tail(s) ELSE s
      run == DigitRun(body, 0, 0)
  IN IF run[2] = 0 THEN NaN ELSE Num(IF neg THEN 0 - run[1] ELSE run[1])

\* Math.ceil(a / b) for a >= 0, b >= 1
MathCeilDiv(a, b) == (a + b - 1) \div b

\* SQLite's  text LIKE pattern  (no ESCAPE): % matches any run of characters,
\* _ matches any one character, a letter matches in either case.
RECURSIVE Like(_, _)
Like(text, pattern) ==
  IF pattern = <<>> THEN text = <<>>
  ELSE IF Head(pattern) = "%"
       THEN Like(text, Tail(pattern))
            \/ (text # <<>> /\ Like(Tail(text), pattern))
  ELSE IF text = <<>> THEN FALSE
  ELSE IF Head(pattern) = "_" THEN Like(Tail(text), Tail(pattern))
  ELSE ToLower(Head(pattern)) = ToLower(Head(text))
       /\ Like(Tail(text), Tail(pattern))

\* `%${search}%`
searchPattern(search) == <<"%">> \o search \o <<"%">>

\* ------------------------------------------------------------- links table
\* The table is the sequence of its rows in id order (AUTOINCREMENT, no row
\* is ever deleted, so a row's id is its position).
\* the insert with the code folded to lower case
NewRowLowerCode(t, code, url, ts) ==
  [id |-> Len(t) + 1, short_code |-> LowerStr(code), original_url |-> url,
   created_at |-> ts, clicks |-> 0]

NewRow(t, code, url, ts) ==
  [id |-> Len(t) + 1, short_code |-> code, original_url |-> url,
   created_at |-> ts, clicks |-> 0]

\* SELECT ... FROM links WHERE short_code = ?   (all rows; .get() is the first)
SelectByCode(t, code) == SelectSeq(t, LAMBDA r : r.short_code = code)

\* the lookup on the wrong column
SelectIdWrongColumn(t, code) ==
  SelectSeq(t, LAMBDA r : r.original_url = code) # <<>>

\* db.query('SELECT id FROM links WHERE short_code = ?').get(code) is truthy
SelectId(t, code) == SelectByCode(t, code) # <<>>

\* INSERT INTO links (short_code, original_url) VALUES (?, ?) at time ts.
\* short_code is UNIQUE: the statement throws when the code is stored.
InsertRow(t, code, url, ts) ==
  IF \E i \in 1..Len(t) : t[i].short_code = code
  THEN [threw |-> TRUE, links |-> t]
  ELSE [threw |-> FALSE, links |-> Append(t, NewRow(t, code, url, ts))]

\* the UPDATE without its WHERE clause
UpdateClicksNoWhere(t, code) ==
  [i \in 1..Len(t) |-> [t[i] EXCEPT !.clicks = t[i].clicks + 1]]

\* UPDATE links SET clicks = clicks + 1 WHERE short_code = ?
UpdateClicks(t, code) ==
  [i \in 1..Len(t) |->
     IF t[i].short_code = code
     THEN [t[i] EXCEPT !.clicks = t[i].clicks + 1]
     ELSE t[i]]

\* WHERE short_code LIKE ? OR original_url LIKE ?
SelectLike(t, pattern) ==
  SelectSeq(t, LAMBDA r : Like(r.short_code, pattern)
                          \/ Like(r.original_url, pattern))

\* SELECT SUM(clicks) FROM links  (null on an empty table, read as 0)
RECURSIVE SumClicks(_)
SumClicks(t) == IF t = <<>> THEN 0 ELSE Head(t).clicks + SumClicks(Tail(t))

\* The orders ORDER BY created_at DESC may return the rows in: every
\* arrangement with non-increasing created_at (SQL leaves the order of rows of
\* equal created_at open).
OrderByCreatedDesc(rows) ==
  LET n == Len(rows)
      perms == {p \in [1..n -> 1..n] : \A i, j \in 1..n : i # j => p[i] # p[j]}
      sorted == {p \in perms : \A i \in 1..(n - 1) :
                    rows[p[i]].created_at >= rows[p[i + 1]].created_at}
  IN {[i \in 1..n |-> rows[p[i]]] : p \in sorted}

\* LIMIT limit OFFSET offset
LimitOffset(rows, limit, offset) ==
  SubSeq(rows, offset + 1, IF offset + limit < Len(rows)
                           THEN offset + limit ELSE Len(rows))

\* the columns short_code, original_url, created_at, clicks of a row
Columns(r) ==
  [short_code |-> r.short_code, original_url |-> r.original_url,
   created_at |-> r.created_at, clicks |-> r.clicks]

\* ------------------------------------------------------------------ router
\* A GET path is the sequence of its segments.  The GET routes in the order
\* index.ts registers them; the first handler whose pattern matches answers.
Param == <<":">>
S_stats == <<"s","t","a","t","s">>
S_links == <<"l","i","n","k","s">>

GetRoutes ==
  << [pattern |-> <<>>, handler |-> "root"],
     [pattern |-> <<S_admin>>, handler |-> "admin_page"],
     [pattern |-> <<Param>>, handler |-> "redirect"],
     [pattern |-> <<S_stats, Param>>, handler |-> "stats"],
     [pattern |-> <<S_admin, S_links>>, handler |-> "admin_links"] >>

\* a parameter matches any non-empty segment
Matches(pattern, path) ==
  /\ Len(pattern) = Len(path)
  /\ \A i \in 1..Len(path) :
       IF pattern[i] = Param THEN path[i] # <<>> ELSE pattern[i] = path[i]

RouteGet(path) ==
  LET found == {i \in 1..Len(GetRoutes) : Matches(GetRoutes[i].pattern, path)}
  IN IF found = {} THEN "not_found"
     ELSE GetRoutes[CHOOSE i \in found : \A j \in found : i <= j].handler

\* ------------------------------------------------------------------- inputs
UrlInputs == {U1, U2, U_noscheme, U_nohost, <<>>, Undefined}
SlugInputs == {S_admin, G1, S_badslug, S_longslug, <<>>, Undefined}
PasswordInputs == {ADMIN_PASSWORD, P_wrong, Undefined}
AuthHeaders == {Undefined, Bearer \o T1, Bearer \o T2, H_lower, H_raw}

\* a request body: json is FALSE when the body is not JSON (c.req.json throws)
Body(json, url, slug, password) ==
  [json |-> json, url |-> url, slug |-> slug, password |-> password]
NotJson == Body(FALSE, Undefined, Undefined, Undefined)
ShortenBodies ==
  {Body(TRUE, u, Undefined, Undefined) : u \in UrlInputs} \cup {NotJson}
CreateBodies ==
  {Body(TRUE, u, sl, Undefined) : u \in {U1, U2}, sl \in SlugInputs}
    \cup {Body(TRUE, u, S_admin, Undefined) : u \in UrlInputs} \cup {NotJson}
AuthBodies ==
  {Body(TRUE, Undefined, Undefined, pw) : pw \in PasswordInputs} \cup {NotJson}

\* the single-segment GET paths tried, and the codes of /stats/:code
PathCodes == GenCodes \cup {S_admin}

\* query parameter values
Q_1 == <<"1">>
Q_2 == <<"2">>
Q_0 == <<"0">>
Q_neg == <<"-","1">>
Q_1x == <<"1",".","5">>
Q_x == <<"x">>
Q_A == <<"A">>
Q_any == <<"_">>
ListQuery(page, limit, search) ==
  [page |-> page, limit |-> limit, search |-> search]
\* the queries of GET /admin/links tried
ListQueries ==
  { ListQuery(Undefined, Undefined, Undefined),
    ListQuery(Q_2, Q_1, Undefined),
    ListQuery(Q_0, Q_1, Undefined),
    ListQuery(Q_1, Q_0, Undefined),
    ListQuery(Q_x, Undefined, Undefined),
    ListQuery(Q_1x, Q_2, Undefined),
    ListQuery(Q_neg, Q_1x, Undefined),
    ListQuery(Q_1, Q_2, Q_A),
    ListQuery(Q_1, Q_2, Q_any) }
DefaultPage == <<"1">>
DefaultLimit == <<"5","0">>

\* the values CURRENT_TIMESTAMP may take at an insert into t: the clock does
\* not run backwards
LatestTime(t) == IF t = <<>> THEN 0 ELSE t[Len(t)].created_at
Timestamps(t) == LatestTime(t)..MaxTime

\* ---------------------------------------------------------------- responses
\* What a step answers, with the request it answers.  status 0: no response
\* yet (the handler is suspended at its await).  code: the code of the path,
\* the slug of the body, or the code /shorten generated; url: the url of the
\* body, or the redirect's target; auth: the Authorization header, or the
\* password of the body; page, limit: the query parameters; attempts: the
\* value of `attempts` when /shorten gave up; threw: the exception caught.
Resp(route, status, error) ==
  [route |-> route, status |-> status, error |-> error, code |-> Undefined,
   url |-> Undefined, auth |-> Undefined, page |-> Undefined,
   limit |-> Undefined, attempts |-> 0, threw |-> "none"]

NoResp == Resp("none", 0, "")

\* ----------------------------------------------------------------- handlers
\* the loop leaving with its first candidate, stored or not
ShortenLoopNoCheck(t, attempts) ==
  {[shortCode |-> c, attempts |-> attempts + 1] : c \in generateShortCode}

\* The do-while of /shorten entered with `attempts` attempts made: the values
\* of shortCode and attempts it can end with.
RECURSIVE ShortenLoop(_, _)
ShortenLoop(t, attempts) ==
  LET n == attempts + 1
      again == {c \in generateShortCode : SelectId(t, c) /\ n < maxAttempts}
  IN {[shortCode |-> c, attempts |-> n] : c \in generateShortCode \ again}
       \cup (IF again # {} THEN ShortenLoop(t, n) ELSE {})

\* the insert and the answer of a creation handler, inside its try/catch
InsertAndAnswer(route, t, code, url, ts) ==
  LET ins == InsertRow(t, code, url, ts)
  IN IF ins.threw
     THEN [links |-> t,
           resp |-> [Resp(route, 400, "Invalid JSON or server error")
                       EXCEPT !.threw = "constraint", !.code = code,
                              !.url = url]]
     ELSE [links |-> ins.links,
           resp |-> [Resp(route, 200, "") EXCEPT !.code = code, !.url = url]]

\* app.post('/shorten') after its await: the outcomes [links, resp]
ShortenOutcomes(t, body) ==
  LET Answer(status, error) ==
        [links |-> t,
         resp |-> [Resp("shorten", status, error) EXCEPT !.url = body.url]]
  IN IF ~body.json
     THEN {[links |-> t,
            resp |-> [Resp("shorten", 400, "Invalid JSON or server error")
                        EXCEPT !.threw = "json"]]}
     ELSE IF Falsy(body.url)
     THEN {Answer(400, "URL is required")}
     ELSE IF ~isValidUrl(body.url)
     THEN {Answer(400, "Invalid URL format")}
     ELSE { IF e.attempts >= maxAttempts
            THEN [links |-> t,
                  resp |-> [Resp("shorten", 500,
                                 "Failed to generate unique short code")
                              EXCEPT !.code = e.shortCode, !.url = body.url,
                                     !.attempts = e.attempts]]
            ELSE InsertAndAnswer("shorten", t, e.shortCode, body.url, ts)
            : e \in ShortenLoop(t, 0), ts \in Timestamps(t) }

\* app.post('/admin/auth') after its await: the outcomes [validTokens, resp]
AdminAuthOutcomes(tokens, body) ==
  IF ~body.json
  THEN {[validTokens |-> tokens, token |-> Undefined,
         resp |-> [Resp("admin_auth", 400, "Invalid request")
                     EXCEPT !.threw = "json"]]}
  ELSE IF body.password = ADMIN_PASSWORD
  THEN {[validTokens |-> tokens \cup {token}, token |-> token,
         resp |-> [Resp("admin_auth", 200, "") EXCEPT !.auth = body.password]]
         : token \in generateToken}
  ELSE {[validTokens |-> tokens, token |-> Undefined,
         resp |-> [Resp("admin_auth", 401, "Invalid password")
                     EXCEPT !.auth = body.password]]}

\* /admin/create as an upsert: no test for a taken slug, INSERT OR REPLACE
AdminCreateOutcomesUpsert(t, body) ==
  IF body.json /\ isValidUrl(body.url) /\ ~Falsy(body.slug)
     /\ isValidSlug(body.slug)
  THEN LET kept == SelectSeq(t, LAMBDA r : r.short_code # body.slug)
       IN {[links |-> Append(kept, NewRow(t, body.slug, body.url, ts)),
            resp |-> [Resp("admin_create", 200, "")
                        EXCEPT !.code = body.slug, !.url = body.url]]
            : ts \in Timestamps(t)}
  ELSE {[links |-> t,
         resp |-> [Resp("admin_create", 400, "Invalid JSON or server error")
                     EXCEPT !.code = body.slug, !.url = body.url]]}

\* app.post('/admin/create') after its await: the outcomes [links, resp]
AdminCreateOutcomes(t, body) ==
  LET Answer(status, error) ==
        [links |-> t,
         resp |-> [Resp("admin_create", status, error)
                     EXCEPT !.code = body.slug, !.url = body.url]]
  IN IF ~body.json
     THEN {[links |-> t,
            resp |-> [Resp("admin_create", 400, "Invalid JSON or server error")
                        EXCEPT !.threw = "json"]]}
     ELSE IF Falsy(body.url)
     THEN {Answer(400, "URL is required")}
     ELSE IF ~isValidUrl(body.url)
     THEN {Answer(400, "Invalid URL format")}
     ELSE IF Falsy(body.slug)
     THEN {Answer(400, "Slug is required")}
     ELSE IF ~isValidSlug(body.slug)
     THEN {Answer(400, "Invalid slug format")}
     ELSE IF SelectId(t, body.slug)
     THEN {Answer(409, "This slug is already taken")}
     ELSE {InsertAndAnswer("admin_create", t, body.slug, body.url, ts)
             : ts \in Timestamps(t)}

\* the redirect handler sending an unknown code to the first stored link
RedirectOutcomeFallback(t, code) ==
  LET link == IF SelectByCode(t, code) = <<>> THEN t ELSE SelectByCode(t, code)
  IN IF link = <<>>
     THEN [links |-> t,
           resp |-> [Resp("redirect", 404, "Short link not found")
                       EXCEPT !.code = code]]
     ELSE [links |-> UpdateClicks(t, Head(link).short_code),
           resp |-> [Resp("redirect", 302, "")
                       EXCEPT !.code = code, !.url = Head(link).original_url]]

\* app.get('/:code'): the outcome [links, resp]
RedirectOutcome(t, code) ==
  IF Falsy(code)
  THEN [links |-> t, resp |-> Resp("redirect", 400, "Short code is required")]
  ELSE LET link == SelectByCode(t, code)
       IN IF link = <<>>
          THEN [links |-> t,
                resp |-> [Resp("redirect", 404, "Short link not found")
                            EXCEPT !.code = code]]
          ELSE [links |-> UpdateClicks(t, code),
                resp |-> [Resp("redirect", 302, "")
                            EXCEPT !.code = code,
                                   !.url = Head(link).original_url]]

\* app.get('/stats/:code'): the response, with the record as body
StatsOutcome(t, code) ==
  IF Falsy(code)
  THEN [resp |-> Resp("stats", 400, "Short code is required"), body |-> <<>>]
  ELSE LET link == SelectByCode(t, code)
       IN IF link = <<>>
          THEN [resp |-> [Resp("stats", 404, "Short link not found")
                            EXCEPT !.code = code],
                body |-> <<>>]
          ELSE [resp |-> [Resp("stats", 200, "") EXCEPT !.code = code],
                body |-> <<Columns(Head(link))>>]

\* the JSON body of an /admin/links answer
ListBody(rows, page, limit, total, totalClicks) ==
  [links |-> rows, page |-> page, limit |-> limit, total |-> total,
   totalPages |-> MathCeilDiv(total, limit), totalLinks |-> total,
   totalClicks |-> totalClicks]

NoListBody == [links |-> <<>>, page |-> 0, limit |-> 0, total |-> 0,
               totalPages |-> 0, totalLinks |-> 0, totalClicks |-> 0]

\* app.get('/admin/links'): the answers it can give, [resp, body]
AdminLinksOutcomes(t, tokens, authHeader, pageQ, limitQ, searchQ) ==
  LET Answer(status, error) ==
        [Resp("admin_links", status, error)
           EXCEPT !.auth = authHeader, !.page = pageQ, !.limit = limitQ]
  IN IF ~validateToken(tokens, authHeader)
     THEN {[resp |-> [Resp("admin_links", 401, "Unauthorized")
                        EXCEPT !.auth = authHeader],
            body |-> NoListBody]}
     ELSE
       LET page == parseInt(OrDefault(pageQ, DefaultPage))
           limit == parseInt(OrDefault(limitQ, DefaultLimit))
           search == OrDefault(searchQ, <<>>)
       IN IF page.nan \/ limit.nan \/ page.val < 1 \/ limit.val < 1
          THEN {[resp |-> Answer(400, "Invalid pagination parameters"),
                 body |-> NoListBody]}
          ELSE LET offset == (page.val - 1) * limit.val
                   rows == IF search # <<>>
                           THEN SelectLike(t, searchPattern(search))
                           ELSE t
                   Page(o) == LimitOffset(o, limit.val, offset)
               IN {[resp |-> Answer(200, ""),
                    body |-> ListBody(
                      [i \in 1..Len(Page(o)) |-> Columns(Page(o)[i])],
                      page.val, limit.val, Len(rows), SumClicks(t))]
                    : o \in OrderByCreatedDesc(rows)}

\* -------------------------------------------------------------------- state
VARIABLES
  links,          \* the links table
  validTokens,    \* the token set
  pending,        \* the POST requests suspended at `await c.req.json()` (a bag)
  last,           \* what the latest step answered
  redirects,      \* history: per code, the GET /<code> requests answered 302
  issued,         \* history: the [code, url] pairs /shorten answered 200 with
  issuedTokens    \* history: the tokens /admin/auth answered 200 with

vars ==
  <<links, validTokens, pending, last, redirects, issued, issuedTokens>>


Init ==
  /\ links = <<>>
  /\ validTokens = {}
  /\ pending = EmptyBag
  /\ last = NoResp
  /\ redirects = [c \in PathCodes |-> 0]
  /\ issued = {}
  /\ issuedTokens = {}

Suspend(req) ==
  /\ BagCardinality(pending) < MaxPending
  /\ pending' = pending (+) SetToBag({req})

Resume(req) ==
  /\ BagIn(req, pending)
  /\ pending' = pending (-) SetToBag({req})

\* ------------------------------------------------------------------ actions
\* GET /
GetRoot ==
  /\ RouteGet(<<>>) = "root"
  /\ last' = Resp("root", 200, "")
  /\ UNCHANGED <<links, validTokens, pending, redirects, issued, issuedTokens>>

\* GET /admin
GetAdminPage ==
  /\ RouteGet(<<S_admin>>) = "admin_page"
  /\ last' = [Resp("admin_page", 200, "") EXCEPT !.code = S_admin]
  /\ UNCHANGED <<links, validTokens, pending, redirects, issued, issuedTokens>>

\* GET /<code>, for the paths the router gives to app.get('/:code')
Redirect(code) ==
  /\ RouteGet(<<code>>) = "redirect"
  /\ LET o == RedirectOutcome(links, code)
     IN /\ \A i \in 1..Len(o.links) : o.links[i].clicks <= MaxClicks
        /\ links' = o.links
        /\ last' = o.resp
        /\ redirects' = IF o.resp.status = 302
                        THEN [redirects EXCEPT ![code] = @ + 1]
                        ELSE redirects
  /\ UNCHANGED <<validTokens, pending, issued, issuedTokens>>

\* GET /stats/<code>
Stats(code) ==
  /\ RouteGet(<<S_stats, code>>) = "stats"
  /\ LET o == StatsOutcome(links, code)
     IN last' = o.resp
  /\ UNCHANGED <<links, validTokens, pending, redirects, issued, issuedTokens>>

\* GET /admin/links?page=&limit=&search=
AdminLinks(authHeader, q) ==
  /\ RouteGet(<<S_admin, S_links>>) = "admin_links"
  /\ \E resp \in {o.resp : o \in AdminLinksOutcomes(links, validTokens,
                         authHeader, q.page, q.limit, q.search)} :
       last' = resp
  /\ UNCHANGED <<links, validTokens, pending, redirects, issued, issuedTokens>>

\* POST /shorten up to its await
ShortenArrive ==
  /\ Suspend("shorten")
  /\ last' = Resp("shorten", 0, "")
  /\ UNCHANGED <<links, validTokens, redirects, issued, issuedTokens>>

\* POST /shorten from its await on, given the body
ShortenHandle(body) ==
  /\ Resume("shorten")
  /\ \E o \in ShortenOutcomes(links, body) :
       /\ Len(o.links) <= MaxLinks
       /\ links' = o.links
       /\ last' = o.resp
       /\ issued' = IF o.resp.status = 200
                    THEN issued \cup {[code |-> o.resp.code, url |-> o.resp.url]}
                    ELSE issued
  /\ UNCHANGED <<validTokens, redirects, issuedTokens>>

\* POST /admin/auth up to its await
AdminAuthArrive ==
  /\ Suspend("admin_auth")
  /\ last' = Resp("admin_auth", 0, "")
  /\ UNCHANGED <<links, validTokens, redirects, issued, issuedTokens>>

\* POST /admin/auth from its await on, given the body
AdminAuthHandle(body) ==
  /\ Resume("admin_auth")
  /\ \E o \in AdminAuthOutcomes(validTokens, body) :
       /\ validTokens' = o.validTokens
       /\ last' = o.resp
       /\ issuedTokens' = IF o.resp.status = 200
                          THEN issuedTokens \cup {o.token}
                          ELSE issuedTokens
  /\ UNCHANGED <<links, redirects, issued>>

\* POST /admin/create up to its await: the token check, then the suspension
AdminCreateArrive(authHeader) ==
  /\ IF ~validateToken(validTokens, authHeader)
     THEN /\ last' = [Resp("admin_create", 401, "Unauthorized")
                        EXCEPT !.auth = authHeader]
          /\ pending' = pending
     ELSE /\ Suspend("admin_create")
          /\ last' = [Resp("admin_create", 0, "") EXCEPT !.auth = authHeader]
  /\ UNCHANGED <<links, validTokens, redirects, issued, issuedTokens>>

\* POST /admin/create from its await on, given the body
AdminCreateHandle(body) ==
  /\ Resume("admin_create")
  /\ \E o \in AdminCreateOutcomes(links, body) :
       /\ Len(o.links) <= MaxLinks
       /\ links' = o.links
       /\ last' = o.resp
  /\ UNCHANGED <<validTokens, redirects, issued, issuedTokens>>

Next ==
  \/ GetRoot
  \/ GetAdminPage
  \/ \E code \in PathCodes : Redirect(code)
  \/ \E code \in PathCodes : Stats(code)
  \/ \E h \in AuthHeaders, q \in ListQueries : AdminLinks(h, q)
  \/ ShortenArrive
  \/ \E body \in ShortenBodies : ShortenHandle(body)
  \/ AdminAuthArrive
  \/ \E body \in AuthBodies : AdminAuthHandle(body)
  \/ \E h \in AuthHeaders : AdminCreateArrive(h)
  \/ \E body \in CreateBodies : AdminCreateHandle(body)

Spec == Init /\ [][Next]_vars

\* The creation requests alone (with the login they need), and the scheduling
\* the server gives: it keeps answering, and every suspended handler is
\* resumed.
NextCreation ==
  \/ ShortenArrive
  \/ \E body \in ShortenBodies : ShortenHandle(body)
  \/ AdminAuthArrive
  \/ \E body \in AuthBodies : AdminAuthHandle(body)
  \/ \E h \in AuthHeaders : AdminCreateArrive(h)
  \/ \E body \in CreateBodies : AdminCreateHandle(body)

SpecCreation ==
  /\ Init
  /\ [][NextCreation]_vars
  /\ WF_vars(NextCreation)
  /\ WF_vars(\E body \in ShortenBodies : ShortenHandle(body))
  /\ WF_vars(\E body \in CreateBodies : AdminCreateHandle(body))

\* ------------------------------------------------------------------- claims
\* code is the short_code of a row of t
Stored(t, code) == \E i \in 1..Len(t) : t[i].short_code = code

\* the row of t with that short_code
RowOf(t, code) == t[CHOOSE i \in 1..Len(t) : t[i].short_code = code]

\* the step resumed a suspended handler
Resumed == BagCardinality(pending') < BagCardinality(pending)

\* the header is 'Bearer <t>' for a token t that /admin/auth has returned
CarriesIssuedToken(authHeader) ==
  \E t \in issuedTokens : authHeader = Bearer \o t

\* C1: when POST /shorten with a valid URL u answers 200 with short_code c,
\* c was the short_code of no stored link before the request, and from then
\* on GET /c is answered by the redirect handler with 302 and target u.
C1_ShortenUniqueAndResolves ==
  [][ /\ (last'.route = "shorten" /\ last'.status = 200)
           => /\ isValidUrl(last'.url)
              /\ ~Stored(links, last'.code)
              /\ [code |-> last'.code, url |-> last'.url] \in issued'
      /\ \A p \in issued' :
           /\ RouteGet(<<p.code>>) = "redirect"
           /\ RedirectOutcome(links', p.code).resp.status = 302
           /\ RedirectOutcome(links', p.code).resp.url = p.url
           /\ (last'.route = "redirect" /\ last'.code = p.code)
                => (last'.status = 302 /\ last'.url = p.url)
    ]_vars

C1_Witness ==
  /\ last.route = "redirect"
  /\ last.status = 302
  /\ [code |-> last.code, url |-> last.url] \in issued
  /\ Len(links) = 2
  /\ links[1].original_url # links[2].original_url

\* C2: the clicks of every stored link equal the number of GET /<code>
\* requests for its code that answered 302: a new link has 0, each 302 adds
\* exactly 1, and no other request changes clicks.
C2_ClicksCountRedirects ==
  \A i \in 1..Len(links) : links[i].clicks = redirects[links[i].short_code]

C2_Witness ==
  /\ last.route = "stats"
  /\ last.status = 200
  /\ Len(links) = 2
  /\ RowOf(links, last.code).clicks = 2
  /\ \E i \in 1..Len(links) : links[i].clicks = 0

C4_TakenSlug ==
  [][ (/\ last'.route = "admin_create"
       /\ Resumed
       /\ last'.threw # "json"
       /\ isValidUrl(last'.url)
       /\ isValidSlug(last'.code)
       /\ Stored(links, last'.code))
        => (last'.status = 409 /\ links' = links)
    ]_vars

C4_Witness ==
  /\ last.route = "admin_create"
  /\ last.status = 409
  /\ Stored(links, last.code)
  /\ RowOf(links, last.code).original_url # last.url
  /\ RowOf(links, last.code).clicks > 0
  /\ [code |-> last.code, url |-> RowOf(links, last.code).original_url]
       \in issued

C6_GiveUpOnlyWhenExhausted ==
  /\ \A e \in ShortenLoop(links, 0) : e.attempts <= maxAttempts
  /\ (last.route = "shorten" /\ last.status = 500)
       => (last.attempts = maxAttempts /\ Stored(links, last.code))

\* C7: no two stored links have the same short_code, and a stored link is
\* never removed and never has its short_code or original_url changed.
C7_UniqueAndImmutable ==
  [][ /\ \A i, j \in 1..Len(links') :
           links'[i].short_code = links'[j].short_code => i = j
      /\ Len(links') >= Len(links)
      /\ \A i \in 1..Len(links) :
           /\ links'[i].id = links[i].id
           /\ links'[i].short_code = links[i].short_code
           /\ links'[i].original_url = links[i].original_url
    ]_vars

C7_Witness ==
  /\ Len(links) = 2
  /\ last.route = "admin_create"
  /\ last.status = 409
  /\ last.code \in GenCodes

\* a string that is an integer: an optional minus sign, then digits only
IsInteger(s) ==
  LET body == IF s # <<>> /\ Head(s) = "-" THEN Tail(s) ELSE s
  IN body # <<>> /\ \A i \in 1..Len(body) : body[i] \in Digits

\* the value of an integer string
RECURSIVE IntegerValue(_)
IntegerValue(s) ==
  IF s = <<>> THEN 0
  ELSE IF Head(s) = "-" THEN 0 - IntegerValue(Tail(s))
  ELSE IntegerValue(SubSeq(s, 1, Len(s) - 1)) * 10 + DigitValue(s[Len(s)])

\* page or limit as the request gives it: an integer >= 1, or absent
GoodPageParam(s) == Falsy(s) \/ (IsInteger(s) /\ IntegerValue(s) >= 1)

\* s contains sub as a substring (case-sensitive)
Contains(s, sub) ==
  \E i \in 0..(Len(s) - Len(sub)) : SubSeq(s, i + 1, i + Len(sub)) = sub

\* the rows whose short_code or original_url contains the search string
Matching(t, search) ==
  IF Falsy(search) THEN t
  ELSE SelectSeq(t, LAMBDA r : Contains(r.short_code, search)
                              \/ Contains(r.original_url, search))

\* C8: an authenticated GET /admin/links with integers page >= 1 and
\* limit >= 1 answers total = T, totalPages = ceil(T / limit) and the slice of
\* at most limit matching links at offset (page - 1) * limit in descending
\* creation time, T being the number of links whose short_code or
\* original_url contains the search string; page < 1, limit < 1 or a value
\* that is no integer answers 400.
C8_Pagination ==
  /\ (last.route = "admin_links" /\ last.status # 401)
       => (last.status = 400
             <=> ~(GoodPageParam(last.page) /\ GoodPageParam(last.limit)))
  /\ \A q \in ListQueries :
       (GoodPageParam(q.page) /\ GoodPageParam(q.limit))
         => \A o \in AdminLinksOutcomes(links, {T1}, Bearer \o T1,
                                        q.page, q.limit, q.search) :
              LET p == IF Falsy(q.page) THEN 1 ELSE IntegerValue(q.page)
                  l == IF Falsy(q.limit) THEN 50 ELSE IntegerValue(q.limit)
                  m == Matching(links, q.search)
                  T == Len(m)
              IN /\ o.resp.status = 200
                 /\ o.body.total = T
                 /\ o.body.totalPages * l >= T
                 /\ (o.body.totalPages - 1) * l < T \/ T = 0
                 /\ T = 0 => o.body.totalPages = 0
                 /\ \E s \in OrderByCreatedDesc(m) :
                      o.body.links =
                        [i \in 1..Len(LimitOffset(s, l, (p - 1) * l)) |->
                           Columns(LimitOffset(s, l, (p - 1) * l)[i])]

C10_CreatedSlugResolves ==
  (last.route = "admin_create" /\ last.status = 200)
    => /\ RouteGet(<<last.code>>) = "redirect"
       /\ RedirectOutcome(links, last.code).resp.status = 302
       /\ RedirectOutcome(links, last.code).resp.url = last.url

====
